---- MODULE Spec2Model ----
(***************************************************************************)
(* A model of the nonogram solving engine of src/nonogram/solver.py: the   *)
(* line candidate generator, the line reducer, the propagation loop, the   *)
(* branch selector and the backtracking search, together with the GUI      *)
(* wiring of src/nonogram/gui.py that starts a solve on a worker thread.   *)
(*                                                                         *)
(* Python lists are objects: a grid is a list of row objects, modelled as  *)
(* a sequence of row identifiers into `heap`.  Positions inside a line are *)
(* 0-based as in the source; TLA+ sequences are 1-based, so cell i of a    *)
(* line s is s[i + 1].                                                     *)
(***************************************************************************)
EXTENDS Integers, Sequences, FiniteSets, TLC

UNKNOWN == -1
EMPTY == 0
FILLED == 1

----------------------------------------------------------------------------
(* Bounds of the model. *)

\* longest line handed to the generator on its own
MaxLen == 4
\* most blocks in one clue
MaxBlocks == 2
\* largest block length in a clue
MaxBlock == 3

----------------------------------------------------------------------------
(* Small helpers standing for Python built-ins. *)

RECURSIVE sum(_)
sum(s) == IF s = <<>> THEN 0 ELSE s[1] + sum(Tail(s))

max(a, b) == IF a >= b THEN a ELSE b

\* range(a, b)
range(a, b) == a .. (b - 1)

\* all sequences over S of length at most n
RECURSIVE SeqsUpTo(_, _)
SeqsUpTo(S, n) ==
    IF n = 0 THEN {<<>>}
    ELSE LET shorter == SeqsUpTo(S, n - 1)
         IN  shorter \cup {Append(s, x) : s \in {t \in shorter : Len(t) = n - 1}, x \in S}

\* all sequences over S of length exactly n
SeqsOfLen(S, n) == [1 .. n -> S]

----------------------------------------------------------------------------
(* _line_candidates: src/nonogram/solver.py lines 37-102. *)

\* line 61
min_rem_len(remaining) == sum(remaining) + max(0, Len(remaining))

\* line 62, with an off-by-one (a plausible slip of the pruning bound)
max_start_short(length, block, remaining) == length - (block + min_rem_len(remaining)) - 1

\* line 62
max_start(length, block, remaining) == length - (block + min_rem_len(remaining))

\* lines 66-71: no cell skipped between pos and start is Filled in line_state
gap_ok(line_state, pos, start) ==
    \A i \in range(pos, start) : line_state[i + 1] # FILLED

\* lines 72-77 without the test: a block may cover an Empty cell
block_ok_skipped(line_state, start, block) == TRUE

\* lines 72-77: no cell of the block is Empty in line_state
block_ok(line_state, start, block) ==
    \A i \in range(start, start + block) : line_state[i + 1] # EMPTY

\* lines 79-80: line[i] = FILLED for the cells of the block
fill(line, start, block) ==
    [i \in 1 .. Len(line) |->
        IF (i - 1) \in range(start, start + block) THEN FILLED ELSE line[i]]

\* lines 53-55: the tail after the last block holds no Filled cell of line_state
tail_ok(line_state, pos, length) ==
    \A i \in range(pos, length) : line_state[i + 1] # FILLED

RECURSIVE place(_, _, _, _, _, _)
RECURSIVE place_from(_, _, _, _, _, _, _)

\* lines 51-99: place(idx, pos), the candidates it appends, in order.  `line`
\* is the buffer as it stands on entry; every iteration of the loop restores
\* the cells it wrote to EMPTY (lines 85-86, 94, 98-99), so each iteration
\* starts from the same buffer.
place(length, blocks, line_state, line, idx, pos) ==
    IF idx = Len(blocks)
    THEN IF tail_ok(line_state, pos, length) THEN <<line>> ELSE <<>>
    ELSE place_from(length, blocks, line_state, line, idx, pos, pos)

\* lines 64-99: the iterations start, start+1, ..., max_start of the loop
place_from(length, blocks, line_state, line, idx, pos, start) ==
    LET block == blocks[idx + 1]
        remaining == SubSeq(blocks, idx + 2, Len(blocks))
        next_pos == start + block
        filled == fill(line, start, block)
        here ==
            IF ~gap_ok(line_state, pos, start) THEN <<>>
            ELSE IF ~block_ok(line_state, start, block) THEN <<>>
            ELSE IF idx < Len(blocks) - 1
                 THEN IF next_pos >= length THEN <<>>
                      ELSE IF line_state[next_pos + 1] = FILLED THEN <<>>
                      ELSE place(length, blocks, line_state,
                                 [filled EXCEPT ![next_pos + 1] = EMPTY],
                                 idx + 1, next_pos + 1)
                 ELSE place(length, blocks, line_state, filled, idx + 1, next_pos)
    IN  IF start > max_start(length, block, remaining) THEN <<>>
        ELSE here \o place_from(length, blocks, line_state, line, idx, pos, start + 1)

\* lines 38-102
_line_candidates(length, blocks, line_state) ==
    IF blocks = <<>>
    THEN IF \E i \in 1 .. Len(line_state) : line_state[i] = FILLED
         THEN <<>>
         ELSE << [i \in 1 .. length |-> EMPTY] >>
    ELSE place(length, blocks, line_state, [i \in 1 .. length |-> EMPTY], 0, 0)

----------------------------------------------------------------------------
(* _intersect_candidates: src/nonogram/solver.py lines 105-118. *)

\* an intersection that takes the first candidate for what all have in common
_intersect_candidates_first(candidates) ==
    IF candidates = <<>> THEN <<>> ELSE candidates[1]

_intersect_candidates(candidates) ==
    IF candidates = <<>> THEN <<>>
    ELSE LET length == Len(candidates[1])
         IN  [i \in 1 .. length |->
                LET v == candidates[1][i]
                    same == \A k \in 2 .. Len(candidates) : candidates[k][i] = v
                IN  IF same THEN v ELSE UNKNOWN]

----------------------------------------------------------------------------
(* What a clue means, stated independently of the generator. *)

\* the lengths of the maximal runs of Filled cells of a complete line, in order
RECURSIVE runs_from(_, _, _)
runs_from(line, i, cur) ==
    IF i > Len(line) THEN (IF cur > 0 THEN <<cur>> ELSE <<>>)
    ELSE IF line[i] = FILLED THEN runs_from(line, i + 1, cur + 1)
    ELSE (IF cur > 0 THEN <<cur>> ELSE <<>>) \o runs_from(line, i + 1, 0)

Runs(line) == runs_from(line, 1, 0)

\* a complete line agrees with the fixed cells of a partial line
Agrees(line, line_state) ==
    \A i \in 1 .. Len(line) : line_state[i] = UNKNOWN \/ line_state[i] = line[i]

\* every filling of a line of the given length that the clue and the fixed cells allow
Fillings(length, blocks, line_state) ==
    {f \in SeqsOfLen({EMPTY, FILLED}, length) : Runs(f) = blocks /\ Agrees(f, line_state)}

----------------------------------------------------------------------------
VARIABLES
    \* where the running call stands
    pc,
    \* a call of the generator on its own: its arguments and what it returned
    gen_args, gen_ret,
    \* a call of _best_branch_line on its own: what it returned
    best_ret,
    \* the puzzle's clues, one per row and one per column
    row_clues, col_clues,
    \* the row objects (Python lists of cells), by identifier
    heap,
    \* the grid handed to the engine by its caller: a list of row identifiers
    grid,
    \* threading.Event: the cancellation flag
    stop_event,
    \* the frame of the running propagate / propagate_once call; its field
    \* `fail` notes the line whose reduction found no candidate
    prop,
    \* what the progress callback received last, and how often it was invoked
    progress,
    \* solve_nonogram: the frames of dfs (innermost last), the solve's
    \* SolveStats, the solutions recorded, the cap, and the SolveResult
    stack, stats, solutions, max_solutions, result,
    \* the GUI (gui.py): self.grid as a list of row identifiers, the rows the
    \* worker thread has copied so far, and the number of cell edits made
    gui_grid, copied, edits,
    \* history: the calls the caller has completed, the cell values of its
    \* grid when the running call began, and whether the cancellation flag
    \* was set when solve_nonogram was called
    hist, snap, stop_at_call

lineVars == <<gen_args, gen_ret, best_ret>>
clueVars == <<row_clues, col_clues>>
solveVars == <<stack, stats, solutions, max_solutions, result>>
guiVars == <<gui_grid, copied, edits>>
vars == <<pc, gen_args, gen_ret, best_ret, row_clues, col_clues, heap, grid, stop_event,
          prop, progress, stack, stats, solutions, max_solutions, result,
          gui_grid, copied, edits, hist, snap, stop_at_call>>

\* SolveStats(), solver.py lines 16-21
SolveStats == [iterations |-> 0, nodes |-> 0, max_depth |-> 0, fixed_cells |-> 0]

NoProp == [grid |-> <<>>, changed |-> FALSE, i |-> 0, stats |-> SolveStats,
           ok |-> FALSE, changed_count |-> 0, fail |-> <<>>]
NoProgress == [count |-> 0, stage |-> "", stats |-> SolveStats]
NoResult == [status |-> "", solutions |-> <<>>, stats |-> SolveStats, message |-> ""]

\* _best_branch_line, solver.py line 227: best_count = 10**9
NoBestCount == 1000000000

\* _best_branch_line, solver.py lines 224-227: nothing chosen yet
NoBest == [type |-> "", index |-> -1, candidates |-> <<>>, count |-> NoBestCount]

----------------------------------------------------------------------------
(* Grids in the heap. *)

\* the cell values of the grid g (a list of row identifiers) in heap h
Value(h, g) == [r \in 1 .. Len(g) |-> h[g[r]]]

\* tuple(grid[r])
row_state(h, g, r) == h[g[r + 1]]

\* tuple(grid[r][c] for r in range(height))
col_state(h, g, c) == [r \in 1 .. Len(g) |-> h[g[r]][c + 1]]

\* _count_fixed, solver.py lines 129-130
_count_fixed(h, g) ==
    Cardinality({rc \in (1 .. Len(g)) \X (1 .. Len(h[g[1]])) : h[g[rc[1]]][rc[2]] # UNKNOWN})

\* _is_solved, solver.py lines 121-126
_is_solved(h, g) ==
    \A r \in 1 .. Len(g) : \A c \in 1 .. Len(h[g[r]]) : h[g[r]][c] # UNKNOWN

\* solver.py lines 158 and 170: the test guarding each write of a reduction
should_write(cell, v) == v # UNKNOWN /\ cell # v

\* solver.py lines 157-160: the cells of row r after the reduction's writes
write_row(h, g, r, intersection) ==
    [h EXCEPT ![g[r + 1]] =
        [c \in 1 .. Len(@) |->
            IF should_write(@[c], intersection[c]) THEN intersection[c] ELSE @[c]]]

\* solver.py lines 169-172: the cells of column c after the reduction's writes
write_col(h, g, c, intersection) ==
    [id \in 1 .. Len(h) |->
        IF \E r \in 1 .. Len(g) : g[r] = id
        THEN LET r == CHOOSE r \in 1 .. Len(g) : g[r] = id
             IN  IF should_write(h[id][c + 1], intersection[r])
                 THEN [h[id] EXCEPT ![c + 1] = intersection[r]]
                 ELSE h[id]
        ELSE h[id]]

\* how many cells of a line the reduction writes
writes(line_state, intersection) ==
    Cardinality({i \in 1 .. Len(line_state) : should_write(line_state[i], intersection[i])})

\* a reduction that treats a line without candidates as a line without
\* information instead of failing
reduce_line_lenient(length, blocks, line_state) ==
    LET candidates == _line_candidates(length, blocks, line_state)
    IN  [ok |-> TRUE,
         intersection |-> IF candidates = <<>> THEN [i \in 1 .. length |-> UNKNOWN]
                          ELSE _intersect_candidates(candidates)]

\* solver.py lines 153-156 (and 165-168, 193-196, 205-208): the candidates of
\* a line, failure when there is none, else their intersection
reduce_line(length, blocks, line_state) ==
    LET candidates == _line_candidates(length, blocks, line_state)
    IN  [ok |-> candidates # <<>>, intersection |-> _intersect_candidates(candidates)]

\* the flag of a pass that forgets the writes of its reductions
mark_changed_lost(changed, n) == changed

\* solver.py lines 160 and 172: changed = True on every write
mark_changed(changed, n) == changed \/ n > 0

\* a cancellation check that never looks at the flag
_check_cancel_never(stop) == FALSE

\* a cancellation check that lost its is_set() test
_check_cancel_unconditional(stop) == TRUE

\* _check_cancel, solver.py lines 32-34: TRUE when it raises Cancelled
_check_cancel(stop) == stop

----------------------------------------------------------------------------
(* propagate: src/nonogram/solver.py lines 133-178, one step per pass       *)
(* start, per row reduction, per column reduction and per pass end.         *)

Height == Len(prop.grid)
Width == Len(heap[prop.grid[1]])

\* lines 140-144: the call itself
enter_propagate(g) ==
    [grid |-> g, changed |-> TRUE, i |-> 0, stats |-> SolveStats, ok |-> FALSE,
     changed_count |-> 0, fail |-> <<>>]

\* lines 145-148: the loop test, the cancellation check, a new pass
PassStart ==
    /\ pc = "prop_while"
    /\ prop.changed
    /\ ~_check_cancel(stop_event)
    /\ prop' = [prop EXCEPT !.changed = FALSE, !.i = 0,
                            !.stats.iterations = @ + 1]
    /\ pc' = "prop_row"
    /\ UNCHANGED <<stop_at_call, lineVars, guiVars, clueVars, solveVars, heap, grid,
                   stop_event, progress, hist, snap>>

\* lines 146 and 32-34: _check_cancel raises Cancelled out of propagate
PassCancelled ==
    /\ pc = "prop_while"
    /\ prop.changed
    /\ _check_cancel(stop_event)
    /\ pc' = "raised"
    /\ UNCHANGED <<stop_at_call, lineVars, guiVars, clueVars, solveVars, heap, grid,
                   stop_event, prop, progress, hist, snap>>

\* lines 145 and 178: no change in the last pass, return True
PropagateFixpoint ==
    /\ pc = "prop_while"
    /\ ~prop.changed
    /\ prop' = [prop EXCEPT !.ok = TRUE]
    /\ pc' = "prop_ret"
    /\ hist' = Append(hist, [fn |-> "propagate", ok |-> TRUE])
    /\ UNCHANGED <<stop_at_call, lineVars, guiVars, clueVars, solveVars, heap, grid,
                   stop_event, progress, snap>>

\* lines 150-160: the reduction of row prop.i
ReduceRow ==
    /\ pc = "prop_row"
    /\ LET r == prop.i
           line_state == row_state(heap, prop.grid, r)
           red == reduce_line(Width, row_clues[r + 1], line_state)
           intersection == red.intersection
       IN  \/ /\ ~red.ok
              /\ prop' = [prop EXCEPT !.ok = FALSE, !.fail = <<"row", prop.i>>]
              /\ pc' = "prop_ret"
              /\ hist' = Append(hist, [fn |-> "propagate", ok |-> FALSE])
              /\ UNCHANGED heap
           \/ /\ red.ok
              /\ heap' = write_row(heap, prop.grid, r, intersection)
              /\ prop' = [prop EXCEPT
                            !.changed = mark_changed(@, writes(line_state, intersection)),
                            !.i = IF r + 1 < Height THEN r + 1 ELSE 0]
              /\ pc' = IF r + 1 < Height THEN "prop_row" ELSE "prop_col"
              /\ UNCHANGED hist
    /\ UNCHANGED <<stop_at_call, lineVars, guiVars, clueVars, solveVars, grid, stop_event,
                   progress, snap>>

\* lines 162-172: the reduction of column prop.i
ReduceCol ==
    /\ pc = "prop_col"
    /\ LET c == prop.i
           line_state == col_state(heap, prop.grid, c)
           red == reduce_line(Height, col_clues[c + 1], line_state)
           intersection == red.intersection
       IN  \/ /\ ~red.ok
              /\ prop' = [prop EXCEPT !.ok = FALSE, !.fail = <<"col", prop.i>>]
              /\ pc' = "prop_ret"
              /\ hist' = Append(hist, [fn |-> "propagate", ok |-> FALSE])
              /\ UNCHANGED heap
           \/ /\ red.ok
              /\ heap' = write_col(heap, prop.grid, c, intersection)
              /\ prop' = [prop EXCEPT
                            !.changed = mark_changed(@, writes(line_state, intersection)),
                            !.i = IF c + 1 < Width THEN c + 1 ELSE 0]
              /\ pc' = IF c + 1 < Width THEN "prop_col" ELSE "prop_pass_end"
              /\ UNCHANGED hist
    /\ UNCHANGED <<stop_at_call, lineVars, guiVars, clueVars, solveVars, grid, stop_event,
                   progress, snap>>

\* lines 174-176: the statistics of the pass and the progress callback
PassEnd ==
    /\ pc = "prop_pass_end"
    /\ LET pstats == [prop.stats EXCEPT !.fixed_cells = _count_fixed(heap, prop.grid)]
       IN  /\ prop' = [prop EXCEPT !.stats = pstats]
           /\ progress' = [count |-> progress.count + 1, stage |-> "propagate",
                           stats |-> pstats]
    /\ pc' = "prop_while"
    /\ UNCHANGED <<stop_at_call, lineVars, guiVars, clueVars, solveVars, heap, grid,
                   stop_event, hist, snap>>

----------------------------------------------------------------------------
(* propagate_once: src/nonogram/solver.py lines 181-214. *)

\* lines 190-200: the reduction of row prop.i
OnceRow ==
    /\ pc = "once_row"
    /\ LET r == prop.i
           line_state == row_state(heap, prop.grid, r)
           red == reduce_line(Width, row_clues[r + 1], line_state)
           intersection == red.intersection
       IN  \/ /\ ~red.ok
              /\ prop' = [prop EXCEPT !.ok = FALSE, !.fail = <<"row", prop.i>>]
              /\ pc' = "once_ret"
              /\ hist' = Append(hist, [fn |-> "propagate_once", ok |-> FALSE])
              /\ UNCHANGED heap
           \/ /\ red.ok
              /\ heap' = write_row(heap, prop.grid, r, intersection)
              /\ prop' = [prop EXCEPT
                            !.changed_count = @ + writes(line_state, intersection),
                            !.i = IF r + 1 < Height THEN r + 1 ELSE 0]
              /\ pc' = IF r + 1 < Height THEN "once_row" ELSE "once_col"
              /\ UNCHANGED hist
    /\ UNCHANGED <<stop_at_call, lineVars, guiVars, clueVars, solveVars, grid, stop_event,
                   progress, snap>>

\* lines 202-214: the reduction of column prop.i; after the last, return True
OnceCol ==
    /\ pc = "once_col"
    /\ LET c == prop.i
           line_state == col_state(heap, prop.grid, c)
           red == reduce_line(Height, col_clues[c + 1], line_state)
           intersection == red.intersection
       IN  \/ /\ ~red.ok
              /\ prop' = [prop EXCEPT !.ok = FALSE, !.fail = <<"col", prop.i>>]
              /\ pc' = "once_ret"
              /\ hist' = Append(hist, [fn |-> "propagate_once", ok |-> FALSE])
              /\ UNCHANGED heap
           \/ /\ red.ok
              /\ heap' = write_col(heap, prop.grid, c, intersection)
              /\ prop' = [prop EXCEPT
                            !.changed_count = @ + writes(line_state, intersection),
                            !.i = IF c + 1 < Width THEN c + 1 ELSE 0,
                            !.ok = c + 1 >= Width]
              /\ pc' = IF c + 1 < Width THEN "once_col" ELSE "once_ret"
              /\ hist' = IF c + 1 < Width THEN hist
                         ELSE Append(hist, [fn |-> "propagate_once", ok |-> TRUE])
    /\ UNCHANGED <<stop_at_call, lineVars, guiVars, clueVars, solveVars, grid, stop_event,
                   progress, snap>>

----------------------------------------------------------------------------
(* A caller of the engine's entry points, and another thread that sets the  *)
(* cancellation flag.                                                       *)

\* most calls one caller makes in a row on the same grid
MaxCalls == 2

\* the caller is between calls
Idle == pc \in {"ext_call", "prop_ret", "once_ret"}

\* propagate(grid, row_clues, col_clues, stop_event, progress_cb)
CallPropagate ==
    /\ Idle
    /\ Len(hist) < MaxCalls
    /\ prop' = enter_propagate(grid)
    /\ snap' = Value(heap, grid)
    /\ pc' = "prop_while"
    /\ UNCHANGED <<stop_at_call, lineVars, guiVars, clueVars, solveVars, heap, grid,
                   stop_event, progress, hist>>

\* propagate_once(grid, row_clues, col_clues), solver.py lines 186-188
CallPropagateOnce ==
    /\ Idle
    /\ Len(hist) < MaxCalls
    /\ prop' = [enter_propagate(grid) EXCEPT !.changed = FALSE]
    /\ snap' = Value(heap, grid)
    /\ pc' = "once_row"
    /\ UNCHANGED <<stop_at_call, lineVars, guiVars, clueVars, solveVars, heap, grid,
                   stop_event, progress, hist>>

\* stop_event.set(), from any other thread at any moment (gui.py line 335)
SetStop ==
    /\ ~stop_event
    /\ pc \notin {"raised", "done"}
    /\ stop_event' = TRUE
    /\ UNCHANGED <<pc, stop_at_call, lineVars, guiVars, clueVars, solveVars, heap, grid,
                   prop, progress, hist, snap>>

----------------------------------------------------------------------------
(* Puzzles. *)

\* largest block and most blocks in a clue of a grid's line
GridMaxBlock == 2
GridMaxBlocks == 2
\* rows and columns of the grids handed to propagate on its own
PropHeight == 2
PropWidth == 2
\* most cells of an input grid that are fixed beforehand
MaxPreset == 1

Cells == {UNKNOWN, EMPTY, FILLED}

\* the grid of h rows and w columns that is all Unknown (model.py line 28)
AllUnknown(h, w) == [r \in 1 .. h |-> [c \in 1 .. w |-> UNKNOWN]]

\* the grids of h rows and w columns with at most p fixed cells
RECURSIVE Grids(_, _, _)
Grids(h, w, p) ==
    IF p = 0 THEN {AllUnknown(h, w)}
    ELSE LET fewer == Grids(h, w, p - 1)
         IN  fewer \cup {[g EXCEPT ![r][c] = v] :
                            g \in fewer, r \in 1 .. h, c \in 1 .. w, v \in {EMPTY, FILLED}}

\* the clues offered to a line: up to nblocks blocks of length up to nblock
Clues(nblock, nblocks) == SeqsUpTo(1 .. nblock, nblocks)

\* a clue fits a line: its blocks and one separator between them
Fits(blocks, length) == sum(blocks) + max(0, Len(blocks) - 1) <= length

PropInit ==
    /\ pc = "ext_call"
    /\ gen_args = [length |-> 0, blocks |-> <<>>, line_state |-> <<>>]
    /\ gen_ret = <<>>
    /\ best_ret = NoBest
    /\ row_clues \in [1 .. PropHeight -> Clues(GridMaxBlock, GridMaxBlocks)]
    /\ col_clues \in [1 .. PropWidth -> Clues(GridMaxBlock, GridMaxBlocks)]
    /\ heap \in Grids(PropHeight, PropWidth, MaxPreset)
    /\ grid = [r \in 1 .. PropHeight |-> r]
    /\ stop_event = FALSE
    /\ prop = NoProp
    /\ progress = NoProgress
    /\ stack = <<>>
    /\ stats = SolveStats
    /\ solutions = <<>>
    /\ max_solutions = 2
    /\ result = NoResult
    /\ gui_grid = <<>>
    /\ copied = <<>>
    /\ edits = 0
    /\ stop_at_call = FALSE
    /\ hist = <<>>
    /\ snap = heap

PropNext ==
    \/ CallPropagate
    \/ PassStart
    \/ PassCancelled
    \/ ReduceRow
    \/ ReduceCol
    \/ PassEnd
    \/ PropagateFixpoint
    \/ CallPropagateOnce
    \/ OnceRow
    \/ OnceCol
    \/ SetStop

SpecProp == PropInit /\ [][PropNext]_vars

----------------------------------------------------------------------------
(* _best_branch_line: src/nonogram/solver.py lines 217-253. *)

\* a selection test that keeps the last line of minimum count, not the first
better_or_equal(count, best_count) == count > 1 /\ count <= best_count

\* lines 235 and 247
better(count, best_count) == count > 1 /\ count < best_count

\* lines 230-239 and 242-251: one line of the scan
scan_line(best, type, index, length, blocks, line_state) ==
    IF \A i \in 1 .. Len(line_state) : line_state[i] # UNKNOWN THEN best
    ELSE LET candidates == _line_candidates(length, blocks, line_state)
             count == Len(candidates)
         IN  IF better(count, best.count)
             THEN [type |-> type, index |-> index, candidates |-> candidates,
                   count |-> count]
             ELSE best

RECURSIVE scan_rows(_, _, _, _, _)
\* lines 229-239: rows r, r+1, ..., height-1
scan_rows(h, g, clues, r, best) ==
    IF r >= Len(g) THEN best
    ELSE scan_rows(h, g, clues, r + 1,
            scan_line(best, "row", r, Len(h[g[1]]), clues[r + 1], row_state(h, g, r)))

RECURSIVE scan_cols(_, _, _, _, _)
\* lines 241-251: columns c, c+1, ..., width-1
scan_cols(h, g, clues, c, best) ==
    IF c >= Len(h[g[1]]) THEN best
    ELSE scan_cols(h, g, clues, c + 1,
            scan_line(best, "col", c, Len(g), clues[c + 1], col_state(h, g, c)))

\* lines 217-253
_best_branch_line(h, g, rclues, cclues) ==
    scan_cols(h, g, cclues, 0, scan_rows(h, g, rclues, 0, NoBest))

----------------------------------------------------------------------------
(* solve_nonogram: src/nonogram/solver.py lines 256-331. *)

\* [row[:] for row in g]: the heap with the new rows, which follow the old
copy_heap(h, g) == h \o [r \in 1 .. Len(g) |-> h[g[r]]]
\* ... and the new list of row identifiers
copy_ids(h, g) == [r \in 1 .. Len(g) |-> Len(h) + r]

\* a branch that copies the grid and writes no candidate into it
apply_cand_skipped(h, g, line_type, index, cand) == h

\* lines 290-296: the candidate written over a whole row or column of new_grid
apply_cand(h, g, line_type, index, cand) ==
    IF line_type = "row"
    THEN [h EXCEPT ![g[index + 1]] = [c \in 1 .. Len(@) |-> cand[c]]]
    ELSE [id \in 1 .. Len(h) |->
            IF \E r \in 1 .. Len(g) : g[r] = id
            THEN [h[id] EXCEPT ![index + 1] = cand[CHOOSE r \in 1 .. Len(g) : g[r] = id]]
            ELSE h[id]]

\* a frame of dfs(cur_grid, depth)
Frame(g, depth) ==
    [cur_grid |-> g, depth |-> depth, line_type |-> "", index |-> -1,
     candidates |-> <<>>, k |-> 0]

Top == stack[Len(stack)]

\* dfs returns: to the loop of the frame below, or to solve_nonogram
Return ==
    /\ stack' = SubSeq(stack, 1, Len(stack) - 1)
    /\ pc' = IF Len(stack) = 1 THEN "classify" ELSE "dfs_loop"

\* a total that is overwritten by the last propagate call's pass count
add_iterations_replaced(total, n) == n

\* line 274: stats.iterations += pstats.iterations
add_iterations(total, n) == total + n

\* a cap test that lets the search run on when the cap is just reached
cap_reached_late(n, cap) == n > cap

\* line 288
cap_reached(n, cap) == n >= cap

\* a handler that hands back the solutions recorded before the flag was seen
cancelled_result_keeps(sols, st) ==
    [status |-> "cancelled", solutions |-> sols, stats |-> st,
     message |-> "Solve cancelled"]

\* lines 303-308
cancelled_result(sols, st) ==
    [status |-> "cancelled", solutions |-> <<>>, stats |-> st,
     message |-> "Solve cancelled"]

\* a classification that reports two solutions as one
classify_late(sols, st) ==
    IF sols = <<>>
    THEN [status |-> "unsolved", solutions |-> <<>>, stats |-> st, message |-> "No solution"]
    ELSE IF Len(sols) > 2
    THEN [status |-> "multiple", solutions |-> SubSeq(sols, 1, 2), stats |-> st,
          message |-> "Multiple solutions found"]
    ELSE [status |-> "solved", solutions |-> sols, stats |-> st,
          message |-> "Unique solution"]

\* lines 310-331
classify(sols, st) ==
    IF sols = <<>>
    THEN [status |-> "unsolved", solutions |-> <<>>, stats |-> st, message |-> "No solution"]
    ELSE IF Len(sols) >= 2
    THEN [status |-> "multiple", solutions |-> SubSeq(sols, 1, 2), stats |-> st,
          message |-> "Multiple solutions found"]
    ELSE [status |-> "solved", solutions |-> sols, stats |-> st,
          message |-> "Unique solution"]

\* lines 264-266 and 299-301: the call, start_grid and the first dfs call
CallSolve ==
    /\ pc = "solve_call"
    /\ heap' = copy_heap(heap, grid)
    /\ stack' = <<Frame(copy_ids(heap, grid), 0)>>
    /\ stats' = SolveStats
    /\ solutions' = <<>>
    /\ snap' = Value(heap, grid)
    /\ stop_at_call' = stop_event
    /\ pc' = "dfs_enter"
    /\ UNCHANGED <<lineVars, guiVars, clueVars, grid, stop_event, prop, progress, max_solutions,
                   result, hist>>

\* lines 269-273: a search node is entered and propagate is called
DfsEnter ==
    /\ pc = "dfs_enter"
    /\ \/ /\ _check_cancel(stop_event)
          /\ pc' = "raised"
          /\ UNCHANGED <<stats, prop>>
       \/ /\ ~_check_cancel(stop_event)
          /\ stats' = [stats EXCEPT !.nodes = @ + 1,
                                    !.max_depth = max(@, Top.depth)]
          /\ prop' = enter_propagate(Top.cur_grid)
          /\ pc' = "prop_while"
    /\ UNCHANGED <<stop_at_call, lineVars, guiVars, clueVars, heap, grid, stop_event, progress, stack, solutions,
                   max_solutions, result, hist, snap>>

\* lines 274-285: after propagate returned
DfsAfterPropagate ==
    /\ pc = "prop_ret"
    /\ stack # <<>>
    /\ stats' = [stats EXCEPT !.iterations = add_iterations(@, prop.stats.iterations),
                              !.fixed_cells = _count_fixed(heap, Top.cur_grid)]
    /\ \/ /\ ~prop.ok
          /\ Return
          /\ UNCHANGED <<heap, solutions>>
       \/ /\ prop.ok
          /\ _is_solved(heap, Top.cur_grid)
          /\ heap' = copy_heap(heap, Top.cur_grid)
          /\ solutions' = Append(solutions, copy_ids(heap, Top.cur_grid))
          /\ Return
       \/ /\ prop.ok
          /\ ~_is_solved(heap, Top.cur_grid)
          /\ LET best == _best_branch_line(heap, Top.cur_grid, row_clues, col_clues)
             IN  IF best.candidates = <<>>
                 THEN Return
                 ELSE /\ stack' = [stack EXCEPT ![Len(stack)] =
                                     [@ EXCEPT !.line_type = best.type,
                                               !.index = best.index,
                                               !.candidates = best.candidates,
                                               !.k = 0]]
                      /\ pc' = "dfs_loop"
          /\ UNCHANGED <<heap, solutions>>
    /\ UNCHANGED <<stop_at_call, lineVars, guiVars, clueVars, grid, stop_event, prop, progress, max_solutions,
                   result, hist, snap>>

\* lines 287-297: the loop over the candidates of the chosen line
DfsLoop ==
    /\ pc = "dfs_loop"
    /\ \/ /\ Top.k >= Len(Top.candidates)
          /\ Return
          /\ UNCHANGED heap
       \/ /\ Top.k < Len(Top.candidates)
          /\ cap_reached(Len(solutions), max_solutions)
          /\ Return
          /\ UNCHANGED heap
       \/ /\ Top.k < Len(Top.candidates)
          /\ ~cap_reached(Len(solutions), max_solutions)
          /\ LET cand == Top.candidates[Top.k + 1]
                 new_grid == copy_ids(heap, Top.cur_grid)
             IN  /\ heap' = apply_cand(copy_heap(heap, Top.cur_grid), new_grid,
                                       Top.line_type, Top.index, cand)
                 /\ stack' = Append([stack EXCEPT ![Len(stack)].k = @ + 1],
                                    Frame(new_grid, Top.depth + 1))
          /\ pc' = "dfs_enter"
    /\ UNCHANGED <<stop_at_call, lineVars, guiVars, clueVars, grid, stop_event, prop, progress, stats, solutions,
                   max_solutions, result, hist, snap>>

\* lines 302-308: Cancelled unwinds every dfs frame and is caught
CatchCancelled ==
    /\ pc = "raised"
    /\ stack # <<>>
    /\ result' = cancelled_result(solutions, stats)
    /\ stack' = <<>>
    /\ pc' = "done"
    /\ UNCHANGED <<stop_at_call, lineVars, guiVars, clueVars, heap, grid, stop_event, prop, progress, stats,
                   solutions, max_solutions, hist, snap>>

\* lines 310-331: the search is over, the result is classified
Classify ==
    /\ pc = "classify"
    /\ result' = classify(solutions, stats)
    /\ pc' = "done"
    /\ UNCHANGED <<stop_at_call, lineVars, guiVars, clueVars, heap, grid, stop_event, prop, progress, stack,
                   stats, solutions, max_solutions, hist, snap>>

\* rows and columns of the grids handed to solve_nonogram
SolveHeight == 3
SolveWidth == 3

\* the clues that describe a picture (a complete grid)
PictureClues(pic) ==
    [row_clues |-> [r \in 1 .. Len(pic) |-> Runs(pic[r])],
     col_clues |-> [c \in 1 .. Len(pic[1]) |->
                        Runs([r \in 1 .. Len(pic) |-> pic[r][c]])]]

\* the clues of every picture
SolvePictureClues ==
    {PictureClues(pic) : pic \in [1 .. SolveHeight -> [1 .. SolveWidth -> {EMPTY, FILLED}]]}

\* The puzzles handed to solve_nonogram: the clues of every picture, with a
\* grid of at most MaxPreset fixed cells (which may contradict the picture),
\* or with the clue of one line replaced by any clue (which may contradict
\* the other clues, or not fit the line) over an all-Unknown grid.
SolvePuzzle(rclues, cclues, cells) ==
    \E b \in SolvePictureClues :
        \/ /\ rclues = b.row_clues
           /\ cclues = b.col_clues
           /\ cells \in Grids(SolveHeight, SolveWidth, MaxPreset)
        \/ /\ \E r \in 1 .. SolveHeight : \E a \in Clues(GridMaxBlock, GridMaxBlocks) :
                 rclues = [b.row_clues EXCEPT ![r] = a]
           /\ cclues = b.col_clues
           /\ cells = AllUnknown(SolveHeight, SolveWidth)
        \/ /\ rclues = b.row_clues
           /\ \E c \in 1 .. SolveWidth : \E a \in Clues(GridMaxBlock, GridMaxBlocks) :
                 cclues = [b.col_clues EXCEPT ![c] = a]
           /\ cells = AllUnknown(SolveHeight, SolveWidth)

SolveInit ==
    /\ pc = "solve_call"
    /\ gen_args = [length |-> 0, blocks |-> <<>>, line_state |-> <<>>]
    /\ gen_ret = <<>>
    /\ best_ret = NoBest
    /\ SolvePuzzle(row_clues, col_clues, heap)
    /\ grid = [r \in 1 .. SolveHeight |-> r]
    /\ stop_event = FALSE
    /\ prop = NoProp
    /\ progress = NoProgress
    /\ stack = <<>>
    /\ stats = SolveStats
    /\ solutions = <<>>
    /\ max_solutions = 2
    /\ result = NoResult
    /\ gui_grid = <<>>
    /\ copied = <<>>
    /\ edits = 0
    /\ stop_at_call = FALSE
    /\ hist = <<>>
    /\ snap = heap

Next ==
    \/ CallSolve
    \/ DfsEnter
    \/ PassStart
    \/ PassCancelled
    \/ ReduceRow
    \/ ReduceCol
    \/ PassEnd
    \/ PropagateFixpoint
    \/ DfsAfterPropagate
    \/ DfsLoop
    \/ CatchCancelled
    \/ Classify
    \/ SetStop

Spec == SolveInit /\ [][Next]_vars

----------------------------------------------------------------------------
(* The search on its own: solve_nonogram with any cap and no cancellation.  *)

\* largest cap max_solutions
MaxCap == 3

SearchInit ==
    /\ pc = "solve_call"
    /\ gen_args = [length |-> 0, blocks |-> <<>>, line_state |-> <<>>]
    /\ gen_ret = <<>>
    /\ best_ret = NoBest
    /\ SolvePuzzle(row_clues, col_clues, heap)
    /\ grid = [r \in 1 .. SolveHeight |-> r]
    /\ stop_event = FALSE
    /\ prop = NoProp
    /\ progress = NoProgress
    /\ stack = <<>>
    /\ stats = SolveStats
    /\ solutions = <<>>
    /\ max_solutions \in 1 .. MaxCap
    /\ result = NoResult
    /\ gui_grid = <<>>
    /\ copied = <<>>
    /\ edits = 0
    /\ stop_at_call = FALSE
    /\ hist = <<>>
    /\ snap = heap

SearchNext ==
    \/ CallSolve
    \/ DfsEnter
    \/ PassStart
    \/ ReduceRow
    \/ ReduceCol
    \/ PassEnd
    \/ PropagateFixpoint
    \/ DfsAfterPropagate
    \/ DfsLoop
    \/ Classify

SpecSearch == SearchInit /\ [][SearchNext]_vars

\* The puzzles of the picture clues on an all-Unknown grid, the default cap,
\* no cancellation; the thread that called solve_nonogram keeps running it,
\* which is the fairness of the steps.
TermInit ==
    /\ SearchInit
    /\ max_solutions = 2
    /\ \E b \in SolvePictureClues : row_clues = b.row_clues /\ col_clues = b.col_clues
    /\ heap = AllUnknown(SolveHeight, SolveWidth)

SpecTerm == TermInit /\ [][SearchNext]_vars /\ WF_vars(SearchNext)

----------------------------------------------------------------------------
(* The GUI: src/nonogram/gui.py.  The Tk thread handles clicks and the      *)
(* Solve and Stop buttons; solve_puzzle starts a worker thread whose run()  *)
(* copies self.grid and calls solve_nonogram on the copy.                   *)

\* rows and columns of the GUI's grid
GuiHeight == 2
GuiWidth == 2
\* most clicks on cells
MaxEdits == 1

\* the worker thread is alive (solve_thread.is_alive())
ThreadAlive == pc \notin {"gui_idle", "done"}

\* gui.py lines 166-167: _set_cell(r, c, v), the write to self.grid
_set_cell(h, g, r, c, v) == [h EXCEPT ![g[r + 1]][c + 1] = v]

\* gui.py lines 170-180: a left click cycles Unknown, Filled, Empty
_on_left_click ==
    /\ edits < MaxEdits
    /\ \E r \in 0 .. Len(gui_grid) - 1 : \E c \in 0 .. Len(heap[gui_grid[1]]) - 1 :
          LET cur == heap[gui_grid[r + 1]][c + 1]
              v == IF cur = UNKNOWN THEN FILLED
                   ELSE IF cur = FILLED THEN EMPTY
                   ELSE UNKNOWN
          IN  heap' = _set_cell(heap, gui_grid, r, c, v)
    /\ edits' = edits + 1
    /\ UNCHANGED <<pc, stop_at_call, lineVars, clueVars, solveVars, gui_grid, copied, grid,
                   stop_event, prop, progress, hist, snap>>

\* gui.py lines 182-186: a right click sets Empty
_on_right_click ==
    /\ edits < MaxEdits
    /\ \E r \in 0 .. Len(gui_grid) - 1 : \E c \in 0 .. Len(heap[gui_grid[1]]) - 1 :
          heap' = _set_cell(heap, gui_grid, r, c, EMPTY)
    /\ edits' = edits + 1
    /\ UNCHANGED <<pc, stop_at_call, lineVars, clueVars, solveVars, gui_grid, copied, grid,
                   stop_event, prop, progress, hist, snap>>

\* gui.py lines 304-331: solve_puzzle clears the flag and starts the worker;
\* the history notes the cell values of self.grid at this moment
solve_puzzle ==
    /\ pc = "gui_idle"
    /\ stop_event' = FALSE
    /\ copied' = <<>>
    /\ hist' = Append(hist, [fn |-> "solve_puzzle", grid |-> Value(heap, gui_grid)])
    /\ pc' = "thread_run"
    /\ UNCHANGED <<stop_at_call, lineVars, clueVars, solveVars, gui_grid, edits, heap, grid,
                   prop, progress, snap>>

\* gui.py line 321, on the worker thread: one row[:] of the comprehension
\* [row[:] for row in self.grid]; after the last, solve_nonogram is called
\* with the copy
run ==
    /\ pc = "thread_run"
    /\ LET i == Len(copied) + 1
       IN  /\ heap' = Append(heap, heap[gui_grid[i]])
           /\ copied' = Append(copied, Len(heap) + 1)
           /\ IF i = Len(gui_grid)
              THEN grid' = copied' /\ pc' = "solve_call"
              ELSE UNCHANGED <<grid, pc>>
    /\ UNCHANGED <<stop_at_call, lineVars, clueVars, solveVars, gui_grid, edits, stop_event,
                   prop, progress, hist, snap>>

\* gui.py lines 333-336: stop_solve sets the flag while the worker is alive
stop_solve ==
    /\ ThreadAlive
    /\ ~stop_event
    /\ stop_event' = TRUE
    /\ UNCHANGED <<pc, stop_at_call, lineVars, clueVars, solveVars, guiVars, heap, grid,
                   prop, progress, hist, snap>>

GuiInit ==
    /\ pc = "gui_idle"
    /\ gen_args = [length |-> 0, blocks |-> <<>>, line_state |-> <<>>]
    /\ gen_ret = <<>>
    /\ best_ret = NoBest
    /\ \E pic \in [1 .. GuiHeight -> [1 .. GuiWidth -> {EMPTY, FILLED}]] :
          /\ row_clues = PictureClues(pic).row_clues
          /\ col_clues = PictureClues(pic).col_clues
    /\ heap \in Grids(GuiHeight, GuiWidth, MaxPreset)
    /\ gui_grid = [r \in 1 .. GuiHeight |-> r]
    /\ grid = <<>>
    /\ stop_event = FALSE
    /\ prop = NoProp
    /\ progress = NoProgress
    /\ stack = <<>>
    /\ stats = SolveStats
    /\ solutions = <<>>
    /\ max_solutions = 2
    /\ result = NoResult
    /\ copied = <<>>
    /\ edits = 0
    /\ stop_at_call = FALSE
    /\ hist = <<>>
    /\ snap = <<>>

GuiNext ==
    \/ _on_left_click
    \/ _on_right_click
    \/ solve_puzzle
    \/ stop_solve
    \/ run
    \/ CallSolve
    \/ DfsEnter
    \/ PassStart
    \/ PassCancelled
    \/ ReduceRow
    \/ ReduceCol
    \/ PassEnd
    \/ PropagateFixpoint
    \/ DfsAfterPropagate
    \/ DfsLoop
    \/ CatchCancelled
    \/ Classify

SpecGui == GuiInit /\ [][GuiNext]_vars

----------------------------------------------------------------------------
(* _best_branch_line called on its own, on any grid. *)

\* rows and columns of the grids handed to _best_branch_line on its own
BestHeight == 2
BestWidth == 3

\* the arguments: the clues of any picture and any grid, solved, partly
\* solved or contradicting the clues
BestInit ==
    /\ pc = "best_call"
    /\ gen_args = [length |-> 0, blocks |-> <<>>, line_state |-> <<>>]
    /\ gen_ret = <<>>
    /\ best_ret = NoBest
    /\ \E pic \in [1 .. BestHeight -> [1 .. BestWidth -> {EMPTY, FILLED}]] :
          /\ row_clues = PictureClues(pic).row_clues
          /\ col_clues = PictureClues(pic).col_clues
    /\ heap \in [1 .. BestHeight -> [1 .. BestWidth -> Cells]]
    /\ grid = [r \in 1 .. BestHeight |-> r]
    /\ stop_event = FALSE
    /\ prop = NoProp
    /\ progress = NoProgress
    /\ stack = <<>>
    /\ stats = SolveStats
    /\ solutions = <<>>
    /\ max_solutions = 2
    /\ result = NoResult
    /\ gui_grid = <<>>
    /\ copied = <<>>
    /\ edits = 0
    /\ stop_at_call = FALSE
    /\ hist = <<>>
    /\ snap = heap

\* _best_branch_line(grid, row_clues, col_clues): it reads the grid only
CallBestBranchLine ==
    /\ pc = "best_call"
    /\ best_ret' = _best_branch_line(heap, grid, row_clues, col_clues)
    /\ pc' = "best_done"
    /\ UNCHANGED <<gen_args, gen_ret, stop_at_call, guiVars, clueVars, solveVars, heap, grid,
                   stop_event, prop, progress, hist, snap>>

BestNext == CallBestBranchLine

SpecBest == BestInit /\ [][BestNext]_vars

\* the generator's arguments: any length, any clue, any partial line
LineInit ==
    /\ pc = "gen_call"
    /\ gen_args \in
         {[length |-> Len(s), blocks |-> b, line_state |-> s] :
            b \in SeqsUpTo(1 .. MaxBlock, MaxBlocks),
            s \in UNION {SeqsOfLen(Cells, m) : m \in 0 .. MaxLen}}
    /\ gen_ret = <<>>
    /\ best_ret = NoBest
    /\ row_clues = <<>>
    /\ col_clues = <<>>
    /\ heap = <<>>
    /\ grid = <<>>
    /\ stop_event = FALSE
    /\ prop = NoProp
    /\ progress = NoProgress
    /\ stack = <<>>
    /\ stats = SolveStats
    /\ solutions = <<>>
    /\ max_solutions = 2
    /\ result = NoResult
    /\ gui_grid = <<>>
    /\ copied = <<>>
    /\ edits = 0
    /\ stop_at_call = FALSE
    /\ hist = <<>>
    /\ snap = <<>>

CallLineCandidates ==
    /\ pc = "gen_call"
    /\ gen_ret' = _line_candidates(gen_args.length, gen_args.blocks, gen_args.line_state)
    /\ pc' = "gen_done"
    /\ UNCHANGED <<gen_args, best_ret, stop_at_call, guiVars, clueVars, solveVars, heap, grid,
                   stop_event, prop, progress, hist, snap>>

LineNext == CallLineCandidates

SpecLine == LineInit /\ [][LineNext]_vars

----------------------------------------------------------------------------
(* C3: every filling the generator returns is complete (Empty/Filled only), *)
(* has the clue's blocks as its maximal Filled runs in order, and agrees    *)
(* with every fixed cell of line_state.                                     *)
C3_CandidatesSound ==
    pc = "gen_done" =>
        \A k \in 1 .. Len(gen_ret) :
            /\ Len(gen_ret[k]) = gen_args.length
            /\ \A i \in 1 .. Len(gen_ret[k]) : gen_ret[k][i] \in {EMPTY, FILLED}
            /\ Runs(gen_ret[k]) = gen_args.blocks
            /\ Agrees(gen_ret[k], gen_args.line_state)

\* the generator returned a two-block filling around fixed cells of both kinds
C3_Witness ==
    /\ pc = "gen_done"
    /\ Len(gen_args.blocks) = 2
    /\ Len(gen_ret) >= 1
    /\ \E i \in 1 .. gen_args.length : gen_args.line_state[i] = FILLED
    /\ \E i \in 1 .. gen_args.length : gen_args.line_state[i] = EMPTY

(* C4: the generator is complete and duplicate-free: its result lists       *)
(* exactly the fillings the clue and line_state allow, each once; with no   *)
(* blocks it is the single all-Empty line, or nothing when line_state holds *)
(* a Filled cell.                                                           *)
C4_CandidatesComplete ==
    pc = "gen_done" =>
        /\ {gen_ret[k] : k \in 1 .. Len(gen_ret)}
             = Fillings(gen_args.length, gen_args.blocks, gen_args.line_state)
        /\ \A j, k \in 1 .. Len(gen_ret) : gen_ret[j] = gen_ret[k] => j = k
        /\ gen_args.blocks = <<>> =>
             gen_ret = IF \E i \in 1 .. gen_args.length : gen_args.line_state[i] = FILLED
                       THEN <<>>
                       ELSE << [i \in 1 .. gen_args.length |-> EMPTY] >>

\* a last block placed at max_start, flush with the end of the line, among
\* several candidates
C4_Witness ==
    /\ pc = "gen_done"
    /\ Len(gen_args.blocks) = 2
    /\ Len(gen_ret) >= 3
    /\ \E k \in 1 .. Len(gen_ret) : gen_ret[k][gen_args.length] = FILLED

----------------------------------------------------------------------------
(* Claims about propagate and propagate_once, under SpecProp. *)

\* propagate is running, or has just left by return or by exception
InPropagate == pc \in {"prop_while", "prop_row", "prop_col", "prop_pass_end"}

\* the caller's second call is a propagate call, running or over
SecondPropagate ==
    \/ Len(hist) = 1 /\ (InPropagate \/ pc = "raised")
    \/ Len(hist) = 2 /\ hist[2].fn = "propagate" /\ pc = "prop_ret"

\* the caller's first call was propagate and it has just returned
FirstPropagateReturned == Len(hist) = 1 /\ hist[1].fn = "propagate" /\ pc = "prop_ret"

(* C5: monotonicity.  Every step of propagate and propagate_once leaves a   *)
(* non-Unknown cell as it is; the only writes are Unknown -> Empty and      *)
(* Unknown -> Filled.                                                       *)
C5_Monotone ==
    [][\A id \in 1 .. Len(heap) : \A c \in 1 .. Len(heap[id]) :
          heap'[id][c] # heap[id][c] =>
              heap[id][c] = UNKNOWN /\ heap'[id][c] \in {EMPTY, FILLED}]_vars

\* a second pass of propagate over a grid with a cell fixed beforehand, after
\* the call has written cells
C5_Witness ==
    /\ pc = "prop_col"
    /\ prop.stats.iterations >= 2
    /\ Len(hist) = 0
    /\ Value(heap, grid) # snap
    /\ \E r \in 1 .. Len(snap) : \E c \in 1 .. Len(snap[r]) : snap[r][c] # UNKNOWN

(* C6 as stated: after a call of propagate has returned, with success or    *)
(* with failure, a second call on the same grid changes no cell.            *)
C6_IdempotentAnyReturn ==
    (Len(hist) >= 1 /\ hist[1].fn = "propagate" /\ SecondPropagate)
        => Value(heap, grid) = snap

(* C6, amended: after a call of propagate has returned success (the         *)
(* fixpoint was reached), a second call on the same grid with the same      *)
(* clues changes no cell, at any point of the second call.                  *)
C6_IdempotentAfterSuccess ==
    (Len(hist) >= 1 /\ hist[1].fn = "propagate" /\ hist[1].ok /\ SecondPropagate)
        => Value(heap, grid) = snap

\* the second call has returned on a grid in which the first call had fixed
\* cells (more cells are fixed than the input fixed)
C6_Witness ==
    /\ Len(hist) = 2
    /\ hist[1] = [fn |-> "propagate", ok |-> TRUE]
    /\ hist[2].fn = "propagate"
    /\ pc = "prop_ret"
    /\ _count_fixed(heap, grid) > MaxPreset

(* C8 as stated: propagate never leaves by exception, also when the         *)
(* cancellation flag is set before or during the call.                      *)
C8_NeverRaises == pc # "raised"

(* C8, amended: propagate leaves by exception only as Cancelled, raised by  *)
(* the check at a pass start when the cancellation flag is set; a line      *)
(* without candidates is reported by the returned ok = False, never by an   *)
(* exception, and propagate_once always returns.                            *)
C8_RaisesOnlyCancelled ==
    /\ pc = "raised" => stop_event /\ prop.changed /\ prop.fail = <<>>
    /\ prop.fail # <<>> => pc \in {"prop_ret", "once_ret"} /\ ~prop.ok

\* the flag was set during the call: Cancelled leaves propagate after a pass
\* that wrote cells
C8_Witness ==
    /\ pc = "raised"
    /\ prop.stats.iterations >= 1
    /\ Value(heap, grid) # snap

\* the rows (0-based) whose clue cannot fit in the width
NonFitRows ==
    {r \in 0 .. Len(row_clues) - 1 : ~Fits(row_clues[r + 1], Len(heap[grid[1]]))}

(* C10 as stated: when some row clue cannot fit in the width, propagate     *)
(* fails in its first pass at row 0's check, before any cell is written.    *)
C10_FailsAtRowZero ==
    (FirstPropagateReturned /\ NonFitRows # {}) =>
        /\ ~prop.ok
        /\ prop.stats.iterations = 1
        /\ prop.fail = <<"row", 0>>
        /\ Value(heap, grid) = snap

(* C10, amended: when some row clue cannot fit in the width, propagate      *)
(* returns failure in its first pass (pass count 1) at the check of the     *)
(* first row that has no candidate, which is at the latest the first row    *)
(* whose clue cannot fit; no column has been reduced, and only rows before  *)
(* the failing row can have been written.                                   *)
C10_FailsInFirstRowSweep ==
    (FirstPropagateReturned /\ NonFitRows # {}) =>
        /\ ~prop.ok
        /\ prop.stats.iterations = 1
        /\ prop.fail # <<>>
        /\ prop.fail[1] = "row"
        /\ \A r \in NonFitRows : prop.fail[2] <= r
        /\ \A r \in prop.fail[2] .. Len(grid) - 1 : heap[grid[r + 1]] = snap[r + 1]

\* the clue that cannot fit is not row 0's, and a row before it was written
C10_Witness ==
    /\ FirstPropagateReturned
    /\ NonFitRows # {}
    /\ 0 \notin NonFitRows
    /\ prop.fail = <<"row", 1>>
    /\ Value(heap, grid) # snap

----------------------------------------------------------------------------
(* Claims about solve_nonogram, under Spec. *)

\* column c (1-based) of a grid of cell values
Column(G, c) == [r \in 1 .. Len(G) |-> G[r][c]]

\* a complete grid satisfies every row clue and every column clue and agrees
\* with the fixed cells of the input grid
IsSolution(G, rclues, cclues, cells) ==
    /\ \A r \in 1 .. Len(G) : \A c \in 1 .. Len(G[r]) : G[r][c] \in {EMPTY, FILLED}
    /\ \A r \in 1 .. Len(G) : Runs(G[r]) = rclues[r] /\ Agrees(G[r], cells[r])
    /\ \A c \in 1 .. Len(G[1]) : Runs(Column(G, c)) = cclues[c]

\* the grids of the first r rows whose rows are fillings of their row
RECURSIVE RowsFilled(_, _, _)
RowsFilled(rclues, cells, r) ==
    IF r = 0 THEN {<<>>}
    ELSE {Append(G, f) : G \in RowsFilled(rclues, cells, r - 1),
                         f \in Fillings(Len(cells[r]), rclues[r], cells[r])}

\* every solution of a puzzle, by enumeration of the complete grids
AllSolutions(rclues, cclues, cells) ==
    {G \in RowsFilled(rclues, cells, Len(cells)) : IsSolution(G, rclues, cclues, cells)}

\* the number of solutions of the puzzle being solved
N == Cardinality(AllSolutions(row_clues, col_clues, snap))

(* C1: with the default cap of 2, a solve that was not cancelled classifies *)
(* by the true number N of solutions: 'unsolved' with 0 grids iff N = 0,    *)
(* 'solved' with 1 grid iff N = 1, 'multiple' with 2 grids iff N >= 2.      *)
C1_Classification ==
    (pc = "done" /\ result.status # "cancelled" /\ max_solutions = 2) =>
        LET n == N
        IN  /\ result.status \in {"unsolved", "solved", "multiple"}
            /\ result.status = "unsolved" <=> n = 0
            /\ result.status = "solved" <=> n = 1
            /\ result.status = "multiple" <=> n >= 2
            /\ result.status = "unsolved" => Len(result.solutions) = 0
            /\ result.status = "solved" => Len(result.solutions) = 1
            /\ result.status = "multiple" => Len(result.solutions) = 2

\* a puzzle with more than two solutions, found by branching, cut at the cap
C1_Witness ==
    /\ pc = "done"
    /\ result.status = "multiple"
    /\ stats.max_depth >= 1
    /\ N >= 3

(* C2: every grid in SolveResult.solutions has no Unknown cell, has in      *)
(* every row and column the line's clue as its maximal Filled runs, and     *)
(* agrees with every fixed cell of the input grid; two returned grids       *)
(* differ in at least one cell.                                             *)
C2_SolutionsValid ==
    pc = "done" =>
        /\ \A k \in 1 .. Len(result.solutions) :
              IsSolution(Value(heap, result.solutions[k]), row_clues, col_clues, snap)
        /\ Len(result.solutions) = 2 =>
              Value(heap, result.solutions[1]) # Value(heap, result.solutions[2])

\* two grids are returned for a puzzle whose input grid had a fixed cell
C2_Witness ==
    /\ pc = "done"
    /\ Len(result.solutions) = 2
    /\ \E r \in 1 .. Len(snap) : \E c \in 1 .. Len(snap[r]) : snap[r][c] # UNKNOWN

(* C7: when the cancellation flag is set as solve_nonogram is called, the   *)
(* result is 'cancelled' with no solution and no search node or pass was    *)
(* performed; and every 'cancelled' result carries no solution, also when   *)
(* solutions had been recorded before the flag was seen.                    *)
C7_Cancelled ==
    /\ (stop_at_call /\ pc # "solve_call") =>
          /\ stats = SolveStats
          /\ prop = NoProp
          /\ progress = NoProgress
          /\ solutions = <<>>
    /\ (stop_at_call /\ pc = "done") =>
          result = [status |-> "cancelled", solutions |-> <<>>, stats |-> SolveStats,
                    message |-> "Solve cancelled"]
    /\ (pc = "done" /\ result.status = "cancelled") => result.solutions = <<>>

\* the flag was set before the call and the call has returned
C7_Witness ==
    /\ pc = "done"
    /\ stop_at_call
    /\ result.status = "cancelled"

\* the row identifiers a grid (a list of row identifiers) holds
Rows(g) == {g[r] : r \in 1 .. Len(g)}

(* C9, the part about solve_nonogram alone: the caller's grid keeps its     *)
(* cell values throughout the call, every dfs frame works on rows of its    *)
(* own, and a recorded solution shares no row with a frame, with the        *)
(* caller's grid or with another solution.                                  *)
C9_SolveOwnsItsGrids ==
    pc # "solve_call" =>
        /\ Value(heap, grid) = snap
        /\ \A i \in 1 .. Len(stack) :
              /\ Rows(stack[i].cur_grid) \cap Rows(grid) = {}
              /\ \A j \in 1 .. Len(stack) :
                    i # j => Rows(stack[i].cur_grid) \cap Rows(stack[j].cur_grid) = {}
              /\ \A k \in 1 .. Len(solutions) :
                    Rows(stack[i].cur_grid) \cap Rows(solutions[k]) = {}
        /\ \A k \in 1 .. Len(solutions) :
              /\ Rows(solutions[k]) \cap Rows(grid) = {}
              /\ \A j \in 1 .. Len(solutions) :
                    j # k => Rows(solutions[j]) \cap Rows(solutions[k]) = {}

(* C9, the part about the GUI: the grid the worker solves holds the cell    *)
(* values self.grid had when solve_puzzle started the background solve,     *)
(* whatever is edited in the GUI afterwards.                                *)
C9_WorkerIsolated ==
    (Len(hist) >= 1 /\ pc \notin {"gui_idle", "thread_run"}) =>
        Value(heap, grid) = hist[1].grid

----------------------------------------------------------------------------
(* The statistics of a solve. *)

\* the three counters of the solve's SolveStats do not decrease in this step
CountersGrow ==
    /\ stats'.iterations >= stats.iterations
    /\ stats'.nodes >= stats.nodes
    /\ stats'.max_depth >= stats.max_depth

(* C11 as stated: during one solve_nonogram call none of iterations, nodes, *)
(* max_depth and fixed_cells ever decreases.                                *)
C11_AllFourMonotone ==
    [][CountersGrow /\ stats'.fixed_cells >= stats.fixed_cells]_vars

(* C11, amended: iterations, nodes and max_depth never decrease; fixed_cells *)
(* changes only when a node's propagate has returned, to the number of       *)
(* non-Unknown cells of that node's grid.                                    *)
C11_CountersMonotone ==
    [][/\ CountersGrow
       /\ stats'.fixed_cells # stats.fixed_cells =>
             /\ pc = "prop_ret"
             /\ stats'.fixed_cells = _count_fixed(heap, Top.cur_grid)]_vars

\* a solution was recorded (every cell fixed) and a later node left fewer
\* fixed cells in the statistics
C11_Witness ==
    /\ solutions # <<>>
    /\ stats.nodes >= 3
    /\ stats.iterations >= 3
    /\ stats.max_depth >= 1
    /\ stats.fixed_cells < SolveHeight * SolveWidth

\* the solve's running statistics while a propagate call of a node is under
\* way: the passes of the earlier nodes and of this call, the nodes entered,
\* the largest depth, and the fixed cells of the node's grid
RunningStats ==
    [iterations |-> stats.iterations + prop.stats.iterations,
     nodes |-> stats.nodes,
     max_depth |-> stats.max_depth,
     fixed_cells |-> _count_fixed(heap, prop.grid)]

(* C12: during solve_nonogram every invocation of the progress callback     *)
(* receives the solve's running statistics at that moment: the passes done  *)
(* so far in the solve, the nodes entered so far, the largest depth so far  *)
(* and the current grid's fixed-cell count.                                 *)
C12_ProgressIsRunningStats ==
    (stack # <<>> /\ pc = "prop_while" /\ prop.stats.iterations > 0) =>
        progress.stats = RunningStats

----------------------------------------------------------------------------
(* The choice of the line to branch on. *)

\* the lines of a grid in scan order: rows 0..height-1, then columns
\* 0..width-1, each as <<type, index>>
ScanOrder(h, g) ==
    [p \in 1 .. Len(g) + Len(h[g[1]]) |->
        IF p <= Len(g) THEN <<"row", p - 1>> ELSE <<"col", p - Len(g) - 1>>]

\* the cells of a line, and the fillings its clue and its cells allow
LineState(h, g, l) ==
    IF l[1] = "row" THEN row_state(h, g, l[2]) ELSE col_state(h, g, l[2])

LineFillings(h, g, l) ==
    LET line_state == LineState(h, g, l)
        blocks == IF l[1] = "row" THEN row_clues[l[2] + 1] ELSE col_clues[l[2] + 1]
    IN  Fillings(Len(line_state), blocks, line_state)

\* a line qualifies for branching: an Unknown cell and more than one filling
Qualifies(h, g, l) ==
    /\ \E i \in 1 .. Len(LineState(h, g, l)) : LineState(h, g, l)[i] = UNKNOWN
    /\ Cardinality(LineFillings(h, g, l)) > 1

\* what _best_branch_line has to return for the grid g
IsBestChoice(h, g, best) ==
    LET order == ScanOrder(h, g)
        Q == {p \in DOMAIN order : Qualifies(h, g, order[p])}
    IN  IF Q = {}
        THEN best.type = "" /\ best.index = -1 /\ best.candidates = <<>>
        ELSE \E p \in Q :
                LET n == Cardinality(LineFillings(h, g, order[p]))
                IN  /\ order[p] = <<best.type, best.index>>
                    /\ {best.candidates[k] : k \in 1 .. Len(best.candidates)}
                          = LineFillings(h, g, order[p])
                    /\ Len(best.candidates) = n
                    /\ \A q \in Q :
                          LET m == Cardinality(LineFillings(h, g, order[q]))
                          IN  n <= m /\ (m = n => p <= q)

(* C13: _best_branch_line returns, among the lines that hold an Unknown     *)
(* cell and have more than one candidate, a line of minimum candidate count *)
(* with exactly that line's candidates; on ties the first in the order rows *)
(* 0..height-1 then columns 0..width-1; an empty candidate set when no line *)
(* qualifies; it leaves the grid as it is and gives the same result again.  *)
C13_BestBranchLine ==
    pc = "best_done" =>
        /\ IsBestChoice(heap, grid, best_ret)
        /\ Value(heap, grid) = snap
        /\ _best_branch_line(heap, grid, row_clues, col_clues) = best_ret

\* a column is returned although a row qualifies too (with more candidates),
\* and a later column has as few candidates as the returned one
C13_Witness ==
    /\ pc = "best_done"
    /\ best_ret.type = "col"
    /\ \E r \in 0 .. BestHeight - 1 :
          /\ Qualifies(heap, grid, <<"row", r>>)
          /\ Cardinality(LineFillings(heap, grid, <<"row", r>>)) > best_ret.count
    /\ \E c \in best_ret.index + 1 .. BestWidth - 1 :
          /\ Qualifies(heap, grid, <<"col", c>>)
          /\ Cardinality(LineFillings(heap, grid, <<"col", c>>)) = best_ret.count

----------------------------------------------------------------------------
(* Termination and the cap of the search. *)

\* the Unknown cells of a grid
Unknowns(h, g) == Len(g) * Len(h[g[1]]) - _count_fixed(h, g)

\* every frame of dfs holds fewer Unknown cells than the frame that called
\* it, and the depths are bounded by the number of cells
SearchDescends ==
    /\ \A i \in 1 .. Len(stack) :
          /\ stack[i].depth = i - 1
          /\ i > 1 => Unknowns(heap, stack[i].cur_grid)
                         < Unknowns(heap, stack[i - 1].cur_grid)
    /\ Len(stack) <= SolveHeight * SolveWidth + 1
    /\ stats.max_depth <= SolveHeight * SolveWidth

(* C14: without cancellation solve_nonogram terminates; each recursive dfs  *)
(* call receives a grid with strictly fewer Unknown cells than its parent's *)
(* grid, so max_depth never exceeds height x width.                         *)
C14_Terminates == []SearchDescends /\ <>(pc = "done")

\* a solve that has returned after recursing two levels deep
C14_Witness ==
    /\ pc = "done"
    /\ stats.max_depth >= 2
    /\ stats.nodes >= 4

\* the cap holds, and a search at its cap only returns: no node is entered,
\* no frame is pushed or changed, no solution is added
CapStops ==
    Len(solutions) = max_solutions =>
        /\ stats'.nodes = stats.nodes
        /\ solutions' = solutions
        /\ Len(stack') <= Len(stack)
        /\ stack' = SubSeq(stack, 1, Len(stack'))

\* a frame's candidates are those of the generator, and the loop hands them
\* to new nodes one by one in their order
CandidatesInOrder ==
    /\ (stack # <<>> /\ Len(stack') = Len(stack) + 1) =>
          LET l == <<Top.line_type, Top.index>>
              state == LineState(heap, Top.cur_grid, l)
              blocks == IF l[1] = "row" THEN row_clues[l[2] + 1] ELSE col_clues[l[2] + 1]
          IN  /\ Top.candidates = _line_candidates(Len(state), blocks, state)
              /\ stack'[Len(stack)].k = Top.k + 1
              /\ LineState(heap', stack'[Len(stack')].cur_grid, l)
                    = Top.candidates[Top.k + 1]
    /\ \A i \in 1 .. Len(stack) :
          (i <= Len(stack') /\ stack'[i].k # stack[i].k) =>
              i = Len(stack) /\ Len(stack') = Len(stack) + 1

(* C15: for every cap max_solutions >= 1 the number of recorded solutions   *)
(* never exceeds the cap; once it equals the cap no further candidate is    *)
(* tried and no further node is entered; the candidates of the chosen line  *)
(* are tried in the order the generator produced them.                      *)
C15_CapRespected ==
    /\ [](Len(solutions) <= max_solutions)
    /\ [][CapStops /\ CandidatesInOrder]_vars

\* a search that branched and ended with a cap of 1 or of 3 reached
C15_Witness ==
    /\ pc = "done"
    /\ max_solutions # 2
    /\ Len(solutions) = max_solutions
    /\ stats.max_depth >= 1

----------------------------------------------------------------------------
(* Cancellation during a solve. *)

\* with the flag set no pass begins and no node is counted
CancelStops ==
    stop_event =>
        /\ stats'.nodes = stats.nodes
        /\ prop'.stats.iterations = prop.stats.iterations
        /\ stats'.iterations \in {stats.iterations, stats.iterations + prop.stats.iterations}

\* a checkpoint (node entry, pass start) reached with the flag set raises
CheckpointRaises ==
    (stop_event /\ (pc = "dfs_enter" \/ (pc = "prop_while" /\ prop.changed))) =>
        pc' = "raised"

\* Cancelled ends the solve with status 'cancelled'
RaisedEnds ==
    pc = "raised" => pc' = "done" /\ result'.status = "cancelled"

(* C16: cancellation is observed at every pass start and every node entry:  *)
(* once the flag is set at most the pass in flight runs to completion, no   *)
(* new pass begins and no new node is counted, and when a checkpoint is     *)
(* reached the solve ends with status 'cancelled'.                          *)
C16_CancelObserved ==
    /\ []((pc = "raised" \/ (pc = "done" /\ result.status = "cancelled")) => stop_event)
    /\ [][CancelStops /\ CheckpointRaises /\ RaisedEnds]_vars

\* a solve cancelled in the middle of its search, after a pass that was in
\* flight when the flag was set had run to its end
C16_Witness ==
    /\ pc = "done"
    /\ result.status = "cancelled"
    /\ ~stop_at_call
    /\ stats.nodes >= 2
    /\ prop.stats.iterations >= 1
    /\ progress.stats = prop.stats

----------------------------------------------------------------------------
(* Propagation and the solutions of the puzzle. *)

\* the solutions of the puzzle that agree with the fixed cells of the
\* caller's grid as it stands now, and as it stood when the call began
SolutionsNow == AllSolutions(row_clues, col_clues, Value(heap, grid))
SolutionsAtCall == AllSolutions(row_clues, col_clues, snap)

(* C17: propagate and propagate_once preserve the solution set: the         *)
(* complete grids that satisfy all clues and agree with the grid's fixed    *)
(* cells are the same before the call and at every moment of it, so every   *)
(* value written is the cell's value in all of them; when the call returns  *)
(* failure there is none.                                                   *)
C17_SolutionsPreserved ==
    pc # "ext_call" =>
        /\ SolutionsNow = SolutionsAtCall
        /\ (pc \in {"prop_ret", "once_ret"} /\ ~prop.ok) => SolutionsAtCall = {}

\* a call has written cells of a puzzle that has a solution
C17_Witness ==
    /\ pc \in {"prop_ret", "once_ret"}
    /\ prop.ok
    /\ Value(heap, grid) # snap
    /\ SolutionsAtCall # {}

====
